---- MODULE Spec2Model ----
(***************************************************************************)
(* A model of the two utilities of the repository:                         *)
(*   - convert_dataset (src/convert_dataset.py): the dataset converter,    *)
(*     a walk over the model directories of a source tree that links or    *)
(*     copies screenshots and voxel files into an output tree;             *)
(*   - validate (src/lib/validate.py): the validation loop around the      *)
(*     encoder, the recurrent updater and the decoder.                     *)
(* The two utilities share no state.  SpecConv runs the converter, SpecVal *)
(* the validator.                                                          *)
(***************************************************************************)
EXTENDS Integers, Sequences, FiniteSets, TLC

VARIABLES
    \* ---- convert_dataset ----
    tree,             \* the source directory: entry name -> directory description
    args,             \* [srcAbs, outIsSrc]: how source_dir / output_dir were given
    roots,            \* which category roots exist in the output ("R", "V")
    outDirs,          \* the per-model output directories that exist: <<"R"|"V", id>>
    fs,               \* the output entries: destination key -> entry
    status,           \* "idle", "running", "done", "aborted"
    remaining,        \* model_dirs not yet visited by the for loop
    cur,              \* the model being converted (between mkdir and the voxel link)
    pending,          \* its screenshots not yet linked
    converted_count,
    skipped_count,
    printed,          \* the SKIP lines printed in this run
    ev,               \* what the last statement block did (exceptions raised / caught)
    runs,             \* number of calls of convert_dataset so far
    prevView,         \* the content of the output after the last completed run
    \* ---- validate ----
    loader,           \* val_loader: the batches it yields
    pc,               \* position in validate
    hidden,           \* the hidden-state pair
    batch,            \* index of the batch being processed (enumerate)
    view,             \* next view index of the inner loop
    losses,
    ious,
    rnnCalls,         \* the invocations of convrnn, in order
    decCalls,         \* the invocations of decoder, in order
    result            \* the returned pair

convVars == <<tree, args, roots, outDirs, fs, status, remaining, cur, pending,
              converted_count, skipped_count, printed, ev, runs, prevView>>
valVars == <<loader, pc, hidden, batch, view, losses, ious, rnnCalls, decCalls, result>>
vars == <<convVars, valVars>>

\* ---------------------------------------------------------------- bounds
MaxRuns == 2       \* calls of convert_dataset in one behaviour
MaxBatches == 3    \* batches the loader yields
MaxViews == 2      \* views per batch

None == "none"

(***************************************************************************)
(*                         convert_dataset                                 *)
(***************************************************************************)

\* File names are their dot-separated parts: a.solid.binvox is <<"a","solid","binvox">>.
Suffix(f) == IF Len(f) > 1 THEN f[Len(f)] ELSE ""

NoDir == [isDir |-> TRUE, screens |-> FALSE, shots |-> {}, hasModels |-> FALSE, models |-> <<>>]
PlainFile == [isDir |-> FALSE, screens |-> FALSE, shots |-> {}, hasModels |-> FALSE, models |-> <<>>]
ModelDir(shots, models) ==
    [isDir |-> TRUE, screens |-> TRUE, shots |-> shots, hasModels |-> TRUE, models |-> models]

P1 == <<"p1", "png">>
P2 == <<"p2", "png">>

\* The scenario of the documentation: A has screenshots and a voxel file, B has
\* screenshots only, C has neither; plus a cache directory and a plain file.
ExampleTree ==
    [n \in {"A", "B", "C", "__pycache__", "README"} |->
        CASE n = "A" -> ModelDir({P1, P2, <<"notes", "txt">>},
                                 <<<<"model", "obj">>, <<"a", "solid", "binvox">>,
                                   <<"a", "surface", "binvox">>>>)
          [] n = "B" -> ModelDir({P1}, <<<<"model", "obj">>>>)
          [] n = "C" -> NoDir
          [] n = "__pycache__" -> NoDir
          [] n = "README" -> PlainFile]

\* D has a voxel file and no screenshots, E an empty screenshots directory, F is complete.
OtherTree ==
    [n \in {"D", "E", "F"} |->
        CASE n = "D" -> [NoDir EXCEPT !.hasModels = TRUE, !.models = <<<<"d", "binvox">>>>]
          [] n = "E" -> ModelDir({}, <<<<"e", "surface", "binvox">>, <<"e", "solid", "binvox">>>>)
          [] n = "F" -> ModelDir({P1}, <<<<"f", "binvox">>, <<"model", "mtl">>>>)]

Trees == {ExampleTree, OtherTree}

RootName(r) == IF r = "R" THEN "ShapeNetRendering" ELSE "ShapeNetVox32"

\* The listing of source_path at the time of iterdir(): the source entries, and
\* the category roots when output_dir is source_dir (they were created just before).
ListingOf(rts) ==
    [n \in DOMAIN tree \cup (IF args.outIsSrc THEN {RootName(r) : r \in rts} ELSE {}) |->
        IF n \in DOMAIN tree THEN tree[n] ELSE NoDir]

Listing == ListingOf(roots)

\* Lines 44-46: the directories of the listing, the cache directory left out.
ModelDirs(rts) == {n \in DOMAIN ListingOf(rts) : ListingOf(rts)[n].isDir /\ n # "__pycache__"}

ScreenshotsExists(d) == Listing[d].screens

\* Fault of FindBinvox: the first file of models/ is taken whatever its suffix.
FindBinvoxAnySuffix(d) ==
    IF ListingOf(roots)[d].hasModels /\ ListingOf(roots)[d].models # <<>>
    THEN Head(ListingOf(roots)[d].models) ELSE None

RECURSIVE FirstBinvox(_)
FirstBinvox(files) ==
    IF files = <<>> THEN None
    ELSE IF Suffix(Head(files)) = "binvox" THEN Head(files)
    ELSE FirstBinvox(Tail(files))

FindBinvox(d) == IF Listing[d].hasModels THEN FirstBinvox(Listing[d].models) ELSE None

Glob(d) == {f \in Listing[d].shots : Suffix(f) = "png"}

\* ---- paths, entries --------------------------------------------------
\* A source path as the converter holds it: source_path / ... is absolute exactly
\* when source_dir was.
SrcPath(rel) == [abs |-> args.srcAbs, path |-> rel]
ImgSrc(d, f) == SrcPath(<<d, "screenshots", f>>)
VoxSrc(d, f) == SrcPath(<<d, "models", f>>)

NoContent == <<>>
\* The content of a source file (every file has its own).
Content(p) == p.path

Absent == [kind |-> "absent"]
FileEntry(c) == [kind |-> "file", content |-> c]
LinkEntry(p) == [kind |-> "link", target |-> p]

\* What reading an entry gives.  A link with a relative target is resolved from
\* the directory that holds the link, not from the working directory: the working
\* directory is none of the output directories, so the target does not exist.
Resolve(e) ==
    CASE e.kind = "file" -> e.content
      [] e.kind = "link" -> IF e.target.abs THEN Content(e.target) ELSE NoContent
      [] OTHER -> NoContent

\* Path.exists(): follows links.
Exists(e) == Resolve(e) # NoContent

\* shutil.copy2(src, dst) on destination entry e.
Copy2(src, e, env) ==
    IF env.copyFails THEN [entry |-> e, raised |-> "copy", envFault |-> TRUE]
    ELSE CASE e.kind = "link" /\ Resolve(e) = NoContent ->
                 \* open(dst, "wb") follows the link: FileNotFoundError
                 [entry |-> e, raised |-> "copy", envFault |-> FALSE]
           [] e.kind = "link" ->
                 \* every link of the output was made from the source path of its
                 \* own destination, so it resolves to src itself: SameFileError
                 [entry |-> e, raised |-> "copy", envFault |-> FALSE]
           [] OTHER -> [entry |-> FileEntry(Content(src)), raised |-> None, envFault |-> FALSE]

\* Fault of LinkOrCopy: the removal of the old entry is outside the try block.
LinkOrCopyUnlinkOutsideTry(src, e, env) ==
    LET existed == Exists(e)
        unlinkErr == existed /\ env.unlinkFails
        e1 == IF existed THEN Absent ELSE e
        symlinkErr == e1 # Absent \/ env.symlinkRejected
    IN  IF unlinkErr
        THEN [entry |-> e, raised |-> "unlink", envFault |-> TRUE, caught |-> None, src |-> src]
        ELSE IF ~symlinkErr
        THEN [entry |-> LinkEntry(src), raised |-> None, envFault |-> FALSE,
              caught |-> None, src |-> src]
        ELSE LET c == Copy2(src, e1, env)
             IN  [entry |-> c.entry, raised |-> c.raised, envFault |-> c.envFault,
                  caught |-> "symlink", src |-> src]

\* The try / except OSError block of lines 93-99 and 103-108 on destination entry e.
LinkOrCopy(src, e, env) ==
    LET existed == Exists(e)
        unlinkErr == existed /\ env.unlinkFails
        e1 == IF existed /\ ~unlinkErr THEN Absent ELSE e
        symlinkErr == ~unlinkErr /\ (e1 # Absent \/ env.symlinkRejected)
        caught == IF unlinkErr THEN "unlink" ELSE IF symlinkErr THEN "symlink" ELSE None
    IN  IF caught = None
        THEN [entry |-> LinkEntry(src), raised |-> None, envFault |-> FALSE,
              caught |-> None, src |-> src]
        ELSE LET c == Copy2(src, e1, env)
             IN  [entry |-> c.entry, raised |-> c.raised,
                  envFault |-> c.envFault \/ unlinkErr, caught |-> caught, src |-> src]

Envs == [unlinkFails : BOOLEAN, symlinkRejected : BOOLEAN, copyFails : BOOLEAN]

Ids == {"A", "B", "C", "D", "E", "F", "ShapeNetRendering", "ShapeNetVox32"}
Keys == {<<"R", d, f>> : d \in Ids, f \in {P1, P2}} \cup {<<"V", d>> : d \in Ids}

NoEv == [op |-> None, raised |-> None, envFault |-> FALSE, caught |-> None]

View(f) == [k \in Keys |-> Resolve(f[k])]

InitConv ==
    /\ tree \in Trees
    /\ args \in [srcAbs : BOOLEAN, outIsSrc : BOOLEAN]
    /\ roots = {}
    /\ outDirs = {}
    /\ fs = [k \in Keys |-> Absent]
    /\ status = "idle"
    /\ remaining = {}
    /\ cur = None
    /\ pending = {}
    /\ converted_count = 0
    /\ skipped_count = 0
    /\ printed = {}
    /\ ev = NoEv
    /\ runs = 0
    /\ prevView = <<>>
    \* the validator does not run
    /\ loader = <<>>
    /\ pc = "off"
    /\ hidden = <<>>
    /\ batch = 0
    /\ view = 0
    /\ losses = <<>>
    /\ ious = <<>>
    /\ rnnCalls = <<>>
    /\ decCalls = <<>>
    /\ result = None

\* Lines 34-53: the category roots are created, then the source is listed.
Start(fault) ==
    /\ status # "running"
    /\ runs < MaxRuns
    /\ runs' = runs + 1
    /\ converted_count' = 0
    /\ skipped_count' = 0
    /\ printed' = {}
    /\ cur' = None
    /\ pending' = {}
    /\ roots' = CASE fault = "mkdir_r" -> roots
                  [] fault = "mkdir_v" -> roots \cup {"R"}
                  [] OTHER -> {"R", "V"}
    /\ IF fault = None
       THEN /\ status' = "running"
            /\ remaining' = ModelDirs({"R", "V"})
            /\ ev' = [NoEv EXCEPT !.op = "start"]
       ELSE /\ status' = "aborted"
            /\ remaining' = {}
            /\ ev' = [NoEv EXCEPT !.op = "start", !.envFault = TRUE,
                        !.raised = IF fault = "iterdir" THEN "iterdir" ELSE "mkdir"]
    /\ UNCHANGED <<tree, args, outDirs, fs, prevView, valVars>>

Visiting(d) == status = "running" /\ cur = None /\ d \in remaining

\* Lines 70-73.
SkipNoScreenshots(d) ==
    /\ Visiting(d)
    /\ ~ScreenshotsExists(d)
    /\ skipped_count' = skipped_count + 1
    /\ printed' = printed \cup {[id |-> d, reason |-> "no screenshots directory"]}
    /\ remaining' = remaining \ {d}
    /\ ev' = [NoEv EXCEPT !.op = "skip"]
    /\ UNCHANGED <<tree, args, roots, outDirs, fs, status, cur, pending,
                   converted_count, runs, prevView, valVars>>

\* Lines 75-78.
SkipNoBinvox(d) ==
    /\ Visiting(d)
    /\ ScreenshotsExists(d)
    /\ FindBinvox(d) = None
    /\ skipped_count' = skipped_count + 1
    /\ printed' = printed \cup {[id |-> d, reason |-> "no binvox file"]}
    /\ remaining' = remaining \ {d}
    /\ ev' = [NoEv EXCEPT !.op = "skip"]
    /\ UNCHANGED <<tree, args, roots, outDirs, fs, status, cur, pending,
                   converted_count, runs, prevView, valVars>>

\* Lines 80-88: the model's two output directories are created and its
\* screenshots globbed.
BeginConvert(d, fault) ==
    /\ Visiting(d)
    /\ ScreenshotsExists(d)
    /\ FindBinvox(d) # None
    /\ remaining' = remaining \ {d}
    /\ outDirs' = CASE fault = "mkdir_r" -> outDirs
                    [] fault = "mkdir_v" -> outDirs \cup {<<"R", d>>}
                    [] OTHER -> outDirs \cup {<<"R", d>>, <<"V", d>>}
    /\ IF fault = None
       THEN /\ cur' = d
            /\ pending' = Glob(d)
            /\ status' = status
            /\ ev' = [NoEv EXCEPT !.op = "mkdir"]
       ELSE /\ cur' = None
            /\ pending' = {}
            /\ status' = "aborted"
            /\ ev' = [NoEv EXCEPT !.op = "mkdir", !.raised = "mkdir", !.envFault = TRUE]
    /\ UNCHANGED <<tree, args, roots, fs, converted_count, skipped_count, printed,
                   runs, prevView, valVars>>

\* Lines 88-99: one iteration of the screenshot loop.
LinkImage(f, env) ==
    /\ status = "running"
    /\ cur # None
    /\ f \in pending
    /\ LET k == <<"R", cur, f>>
           r == LinkOrCopy(ImgSrc(cur, f), fs[k], env)
       IN  /\ fs' = [fs EXCEPT ![k] = r.entry]
           /\ ev' = [op |-> "link", raised |-> r.raised, envFault |-> r.envFault,
                     caught |-> r.caught, src |-> r.src, dst |-> k]
           /\ IF r.raised = None
              THEN /\ pending' = pending \ {f}
                   /\ UNCHANGED <<status, cur>>
              ELSE /\ status' = "aborted"
                   /\ cur' = None
                   /\ pending' = {}
    /\ UNCHANGED <<tree, args, roots, outDirs, remaining, converted_count,
                   skipped_count, printed, runs, prevView, valVars>>

\* Lines 101-112: the voxel file, then the model is counted.
LinkVoxel(env) ==
    /\ status = "running"
    /\ cur # None
    /\ pending = {}
    /\ LET k == <<"V", cur>>
           r == LinkOrCopy(VoxSrc(cur, FindBinvox(cur)), fs[k], env)
       IN  /\ fs' = [fs EXCEPT ![k] = r.entry]
           /\ ev' = [op |-> "link", raised |-> r.raised, envFault |-> r.envFault,
                     caught |-> r.caught, src |-> r.src, dst |-> k]
           /\ IF r.raised = None
              THEN /\ converted_count' = converted_count + 1
                   /\ UNCHANGED status
              ELSE /\ status' = "aborted"
                   /\ UNCHANGED converted_count
    /\ cur' = None
    /\ UNCHANGED <<tree, args, roots, outDirs, remaining, pending,
                   skipped_count, printed, runs, prevView, valVars>>

\* Lines 114-119: the loop is over, the summary is printed.
Finish ==
    /\ status = "running"
    /\ cur = None
    /\ remaining = {}
    /\ status' = "done"
    /\ prevView' = View(fs)
    /\ ev' = [NoEv EXCEPT !.op = "finish"]
    /\ UNCHANGED <<tree, args, roots, outDirs, fs, remaining, cur, pending,
                   converted_count, skipped_count, printed, runs, valVars>>

NextConv ==
    \/ \E fault \in {None, "mkdir_r", "mkdir_v", "iterdir"} : Start(fault)
    \/ \E d \in Ids : SkipNoScreenshots(d)
    \/ \E d \in Ids : SkipNoBinvox(d)
    \/ \E d \in Ids, fault \in {None, "mkdir_r", "mkdir_v"} : BeginConvert(d, fault)
    \/ \E f \in {P1, P2}, env \in Envs : LinkImage(f, env)
    \/ \E env \in Envs : LinkVoxel(env)
    \/ Finish

SpecConv == InitConv /\ [][NextConv]_vars

\* ---------------------------------------------------------------- properties

\* The source as the caller gave it: its model subfolders and what they hold.
SourceModels == {n \in DOMAIN tree : tree[n].isDir /\ n # "__pycache__"}
HasScreenshots(d) == d \in DOMAIN tree /\ tree[d].screens
VoxelFiles(d) ==
    IF d \in DOMAIN tree /\ tree[d].hasModels
    THEN {tree[d].models[i] : i \in {j \in 1..Len(tree[d].models) :
                                        Suffix(tree[d].models[j]) = "binvox"}}
    ELSE {}
Convertible(d) == HasScreenshots(d) /\ VoxelFiles(d) # {}
SourceImages(d) == {f \in tree[d].shots : Suffix(f) = "png"}

RenderingEntries(d) == {k \in Keys : k[1] = "R" /\ k[2] = d /\ fs[k] # Absent}
NoOutputFor(d) ==
    /\ \A k \in Keys : k[2] = d => fs[k] = Absent
    /\ <<"R", d>> \notin outDirs
    /\ <<"V", d>> \notin outDirs

\* C1: a candidate that lacks the screenshots directory or a .binvox file under
\* models/ is skipped: the skip counter grows by exactly one, the converted
\* counter does not change, and there is no output entry for that model id.
C1_SkipMissing ==
    [][\A d \in remaining \ remaining' :
          (status = "running" /\ ~Convertible(d)) =>
              /\ skipped_count' = skipped_count + 1
              /\ converted_count' = converted_count
              /\ \E r \in printed' \ printed : r.id = d
              /\ fs' = fs
              /\ outDirs' = outDirs
              /\ NoOutputFor(d)']_vars

C1_Witness ==
    /\ status = "done"
    /\ skipped_count = 2
    /\ converted_count = 1
    /\ {r.reason : r \in printed} = {"no screenshots directory", "no binvox file"}
    /\ \A r \in printed : NoOutputFor(r.id)

\* C2: after the run every model directory with screenshots and a voxel file has
\* rendering/ with exactly one entry per source .png, each reading as its source
\* image, and exactly model.binvox reading as the source voxel file, for links
\* and copies and for absolute and relative source paths.
C2_OutputMatchesSource ==
    status = "done" =>
        \A d \in SourceModels :
            Convertible(d) =>
                /\ {<<"R", d>>, <<"V", d>>} \subseteq outDirs
                /\ {k[3] : k \in RenderingEntries(d)} = SourceImages(d)
                /\ \A f \in SourceImages(d) : Resolve(fs[<<"R", d, f>>]) = <<d, "screenshots", f>>
                /\ \E f \in VoxelFiles(d) : Resolve(fs[<<"V", d>>]) = <<d, "models", f>>

\* C3: a second run on an already converted source raises no error and leaves
\* the content of the output as the first run left it, whatever the existing
\* destination entries are (copies, valid links, links that do not resolve).
C3_RerunIdempotent ==
    [][(status = "running" /\ prevView # <<>>) =>
          /\ status' = "aborted" => ev'.envFault
          /\ status' = "done" => View(fs') = prevView]_vars

\* C4: when symlink creation raises OSError for an image or the voxel file, the
\* file is copied to the same destination, the model is still counted, and the
\* entry reads as its source.
C4_FallbackCopies ==
    (ev.op = "link" /\ ev.caught = "symlink" /\ ~ev.envFault) =>
        /\ ev.raised = None
        /\ status = "running"
        /\ fs[ev.dst] = FileEntry(Content(ev.src))
        /\ ev.dst[1] = "V" => converted_count >= 1

\* C5: when the run is over the converted count is the number of model
\* subfolders of the source with screenshots and a voxel file, the skipped count
\* the number of those missing either; for A, B, C of the example the counts are
\* 1 and 2, B for "no binvox file", C for "no screenshots directory"; for every
\* output directory, the source directory itself included.
C5_CountsMatchSource ==
    status = "done" =>
        /\ converted_count = Cardinality({d \in SourceModels : Convertible(d)})
        /\ skipped_count = Cardinality({d \in SourceModels : ~Convertible(d)})
        /\ tree = ExampleTree =>
              /\ converted_count = 1
              /\ skipped_count = 2
              /\ printed = {[id |-> "B", reason |-> "no binvox file"],
                            [id |-> "C", reason |-> "no screenshots directory"]}

\* C9 as stated: only an OSError of symlink creation is caught; any other
\* failure, the removal of an existing destination entry included, propagates
\* and aborts the run.
C9_OnlySymlinkCaught ==
    /\ ev.caught \in {None, "symlink"}
    /\ ev.raised # None => status = "aborted"

\* C9 as amended: the OSErrors caught are those raised in the try block, by the
\* removal of an existing destination entry or by symlink creation, and each is
\* followed by the copy; a failure of a mkdir, of the listing of the source or of
\* the fallback copy propagates and aborts the run, the model not being counted.
C9_TryBlockErrorsCaught ==
    [][/\ ev'.caught \in {None, "unlink", "symlink"}
       /\ ev'.caught # None =>
             \/ ev'.raised = "copy"
             \/ fs'[ev'.dst] = FileEntry(Content(ev'.src))
       /\ ev'.raised # None =>
             /\ ev'.raised \in {"mkdir", "iterdir", "copy"}
             /\ status' = "aborted"
             /\ status = "running" => converted_count' = converted_count
       /\ status' = "aborted" => ev'.raised # None]_vars

C9_Witness ==
    /\ ev.op = "link"
    /\ ev.caught = "unlink"
    /\ ev.raised = None
    /\ status = "running"
    /\ fs[ev.dst] = FileEntry(Content(ev.src))

(***************************************************************************)
(*                               validate                                  *)
(***************************************************************************)

\* What NLL(...).item() and calc_mean_IOU(...)[5] give for a batch: the metric
\* functions are outside the repository, their values are data of the batch.
Metrics == {[L |-> 1, I |-> 4], [L |-> 3, I |-> 1]}

Batches == [views : 0..MaxViews, m : Metrics]

RECURSIVE SeqsUpTo(_, _)
SeqsUpTo(S, n) ==
    IF n = 0 THEN {<<>>}
    ELSE LET shorter == SeqsUpTo(S, n - 1)
         IN  shorter \cup {Append(q, x) : q \in {t \in shorter : Len(t) = n - 1}, x \in S}

\* A tensor is the chain of encodings folded into it, with the batches whose
\* computation graph it still hangs on.
Zeros(c) == [comp |-> c, val |-> <<>>, grad |-> {}]

\* Lines 14-17.
InitHidden == <<Zeros(0), Zeros(1)>>

\* Faults of Detach: only the first component is detached; the state is zeroed.
DetachFirstOnly(hid) == <<[hid[1] EXCEPT !.grad = {}], hid[2]>>
ResetToZeros(hid) == <<Zeros(0), Zeros(1)>>

\* Lines 20-21: detach_() on both components, in place.
Detach(hid) == <<[hid[1] EXCEPT !.grad = {}], [hid[2] EXCEPT !.grad = {}]>>

\* Line 25-26: the encoding of view v of the images of batch b.
Encoder(b, v) == [batch |-> b, view |-> v]

\* Line 27: the recurrent updater; both new components depend on the encoding
\* and on both old components.
ConvRnn(enc, hid, b) ==
    LET g == hid[1].grad \cup hid[2].grad \cup {b}
    IN  <<[comp |-> 0, val |-> Append(hid[1].val, enc), grad |-> g],
          [comp |-> 1, val |-> Append(hid[2].val, enc), grad |-> g]>>

\* Fault of DecoderInput: the second component is decoded.
DecoderInputSecond(hid) == hid[2]

\* Line 29: the decoder is given hidden[0].
DecoderInput(hid) == hid[1]

RECURSIVE SumSeq(_)
SumSeq(q) == IF q = <<>> THEN 0 ELSE Head(q) + SumSeq(Tail(q))

\* np.mean, as an exact fraction; nan (0/0) for the empty list.
NaN == [num |-> 0, den |-> 0]
Mean(q) == IF q = <<>> THEN NaN ELSE [num |-> SumSeq(q), den |-> Len(q)]

\* Fault of Record: the list is overwritten instead of extended.
RecordOverwrite(list, x) == <<x>>

\* Lines 36-37.
Record(list, x) == Append(list, x)

InitVal ==
    /\ loader \in SeqsUpTo(Batches, MaxBatches)
    /\ pc = "start"
    /\ hidden = <<>>
    /\ batch = 0
    /\ view = 0
    /\ losses = <<>>
    /\ ious = <<>>
    /\ rnnCalls = <<>>
    /\ decCalls = <<>>
    /\ result = None
    \* the converter does not run
    /\ tree = ExampleTree
    /\ args = [srcAbs |-> TRUE, outIsSrc |-> FALSE]
    /\ roots = {}
    /\ outDirs = {}
    /\ fs = [k \in Keys |-> Absent]
    /\ status = "idle"
    /\ remaining = {}
    /\ cur = None
    /\ pending = {}
    /\ converted_count = 0
    /\ skipped_count = 0
    /\ printed = {}
    /\ ev = NoEv
    /\ runs = 0
    /\ prevView = <<>>

\* Lines 8-18.
ValStart ==
    /\ pc = "start"
    /\ hidden' = InitHidden
    /\ losses' = <<>>
    /\ ious' = <<>>
    /\ pc' = "loop"
    /\ UNCHANGED <<loader, batch, view, rnnCalls, decCalls, result, convVars>>

\* Lines 19-22: the next batch is taken, the hidden state detached.
NextBatch ==
    /\ pc = "loop"
    /\ batch < Len(loader)
    /\ batch' = batch + 1
    /\ hidden' = Detach(hidden)
    /\ view' = 0
    /\ pc' = "views"
    /\ UNCHANGED <<loader, losses, ious, rnnCalls, decCalls, result, convVars>>

\* Lines 24-27: one iteration of the view loop.
ViewStep ==
    /\ pc = "views"
    /\ view < loader[batch].views
    /\ LET enc == Encoder(batch, view)
           out == ConvRnn(enc, hidden, batch)
       IN  /\ hidden' = out
           /\ rnnCalls' = Append(rnnCalls, [batch |-> batch, view |-> view, enc |-> enc,
                                            hin |-> hidden, hout |-> out])
    /\ view' = view + 1
    /\ UNCHANGED <<loader, pc, batch, losses, ious, decCalls, result, convVars>>

\* Lines 28-37: decode, compute the loss and the IOU, record them.
Decode ==
    /\ pc = "views"
    /\ view >= loader[batch].views
    /\ decCalls' = Append(decCalls, [batch |-> batch, input |-> DecoderInput(hidden),
                                     after |-> Len(rnnCalls)])
    /\ losses' = Record(losses, loader[batch].m.L)
    /\ ious' = Record(ious, loader[batch].m.I)
    /\ pc' = "loop"
    /\ UNCHANGED <<loader, hidden, batch, view, rnnCalls, result, convVars>>

\* Line 38.
Return ==
    /\ pc = "loop"
    /\ batch >= Len(loader)
    /\ result' = <<Mean(losses), Mean(ious)>>
    /\ pc' = "done"
    /\ UNCHANGED <<loader, hidden, batch, view, losses, ious, rnnCalls, decCalls, convVars>>

NextVal ==
    \/ ValStart
    \/ NextBatch
    \/ ViewStep
    \/ Decode
    \/ Return

SpecVal == InitVal /\ [][NextVal]_vars

\* ---------------------------------------------------------------- properties of validate

\* The batches whose body has run to its end.
Completed(b) == b < batch \/ (b = batch /\ pc \in {"loop", "done"})
NCompleted == Cardinality({b \in 1..Len(loader) : Completed(b)})

RECURSIVE TotalL(_)
TotalL(n) == IF n = 0 THEN 0 ELSE loader[n].m.L + TotalL(n - 1)
RECURSIVE TotalI(_)
TotalI(n) == IF n = 0 THEN 0 ELSE loader[n].m.I + TotalI(n - 1)
RECURSIVE TotalViews(_)
TotalViews(n) == IF n = 0 THEN 0 ELSE loader[n].views + TotalViews(n - 1)

\* C6: one loss and one IOU value are recorded per batch, in iterator order, and
\* for N >= 1 batches the returned pair is (mean(L_1..L_N), mean(I_1..I_N)).
C6_MeanOverAllBatches ==
    /\ Len(losses) = NCompleted
    /\ Len(ious) = NCompleted
    /\ \A i \in 1..Len(losses) : losses[i] = loader[i].m.L
    /\ \A i \in 1..Len(ious) : ious[i] = loader[i].m.I
    /\ (pc = "done" /\ Len(loader) >= 1) =>
          /\ result[1] # NaN /\ result[2] # NaN
          /\ result[1].num * Len(loader) = TotalL(Len(loader)) * result[1].den
          /\ result[2].num * Len(loader) = TotalI(Len(loader)) * result[2].den

C6_Witness ==
    /\ pc = "done"
    /\ Len(loader) >= 2
    /\ loader[1].m # loader[2].m
    /\ result[1] = [num |-> TotalL(Len(loader)), den |-> Len(loader)]

CallsOf(b) == SelectSeq(rnnCalls, LAMBDA c : c.batch = b)

\* C7: for a batch with V views convrnn is invoked exactly V times, in view order
\* 0..V-1, each call on the encoding of that view and the hidden state returned
\* by the previous view's call; the decoder is invoked once per batch, after all
\* V views, on the first component of the final hidden state.
C7_ViewsInOrderThenDecode ==
    /\ \A b \in 1..batch :
          LET cs == CallsOf(b)
          IN  /\ Len(cs) <= loader[b].views
              /\ Completed(b) => Len(cs) = loader[b].views
              /\ \A i \in 1..Len(cs) :
                    /\ cs[i].view = i - 1
                    /\ cs[i].enc = [batch |-> b, view |-> i - 1]
              /\ \A i \in 2..Len(cs) : cs[i].hin = cs[i - 1].hout
    /\ Len(decCalls) = NCompleted
    /\ \A j \in 1..Len(decCalls) :
          /\ decCalls[j].batch = j
          /\ decCalls[j].after = TotalViews(j)
          /\ decCalls[j].input.comp = 0
          /\ loader[j].views > 0 =>
                decCalls[j].input = CallsOf(j)[loader[j].views].hout[1]

C7_Witness ==
    /\ pc = "done"
    /\ \E j \in 1..Len(decCalls) : loader[j].views = MaxViews /\ Len(CallsOf(j)) = MaxViews
    /\ MaxViews >= 2

\* C8: at the start of every batch both components are detached before any view
\* is encoded or passed to convrnn: the hidden state used in a batch carries no
\* gradient history of an earlier batch.
C8_DetachedAtBatchStart ==
    /\ \A i \in 1..Len(rnnCalls) :
          LET c == rnnCalls[i]
          IN  /\ c.hin[1].grad \subseteq {c.batch}
              /\ c.hin[2].grad \subseteq {c.batch}
              /\ c.view = 0 => c.hin[1].grad = {} /\ c.hin[2].grad = {}
    /\ \A j \in 1..Len(decCalls) : decCalls[j].input.grad \subseteq {j}
    /\ pc = "views" => hidden[1].grad \subseteq {batch} /\ hidden[2].grad \subseteq {batch}

C8_Witness ==
    \E i \in 1..Len(rnnCalls) :
        /\ rnnCalls[i].batch >= 2
        /\ rnnCalls[i].view = 0
        /\ rnnCalls[i].hin[1].val # <<>>
        /\ rnnCalls[i].hin[2].grad = {}

\* C10: the hidden state is zero once, before the first batch, and never reset:
\* view 0 of batch k+1 is given the detached hidden state that batch k ended
\* with, and the decoder of a batch without views is given the state carried
\* over from the batch before.
C10_HiddenCarriedAcrossBatches ==
    /\ rnnCalls # <<>> => rnnCalls[1].hin = InitHidden
    /\ \A i \in 1..(Len(rnnCalls) - 1) :
          /\ rnnCalls[i + 1].hin[1].val = rnnCalls[i].hout[1].val
          /\ rnnCalls[i + 1].hin[2].val = rnnCalls[i].hout[2].val
          /\ rnnCalls[i + 1].batch # rnnCalls[i].batch =>
                /\ rnnCalls[i + 1].hin[1].grad = {}
                /\ rnnCalls[i + 1].hin[2].grad = {}
    /\ \A j \in 1..Len(decCalls) :
          loader[j].views = 0 =>
              decCalls[j].input.val = IF j = 1 THEN <<>> ELSE decCalls[j - 1].input.val
    /\ pc \in {"loop", "views", "done"} =>
          /\ Len(hidden[1].val) = Len(rnnCalls)
          /\ Len(hidden[2].val) = Len(rnnCalls)

C10_Witness ==
    \E j \in 2..Len(decCalls) :
        /\ loader[j].views = 0
        /\ decCalls[j].input.val # <<>>
        /\ \E i \in 1..Len(rnnCalls) : rnnCalls[i].batch > j /\ rnnCalls[i].view = 0

====
